---- MODULE Spec2Model ----
(***************************************************************************)
(* Model of Packages/Python/usage.py: the NovaCore usage script.           *)
(*                                                                         *)
(* The script is straight-line Python.  The state is the interpreter's     *)
(* state while it runs the module body: the line being executed, the       *)
(* module namespace, what was written to the two output streams, the exit  *)
(* status of the process, and a history of the collaborator calls and of   *)
(* the exceptions raised.  The novacore functions are external: each call  *)
(* is a nondeterministic choice over the outcomes their documentation in   *)
(* the script's comments allows (return, raise an error, end the process). *)
(***************************************************************************)
EXTENDS Integers, Sequences, FiniteSets, TLC

VARIABLES pc, globals, stdout, stderr, status, calls, mismatches, raises

vars == <<pc, globals, stdout, stderr, status, calls, mismatches, raises>>

(***************************************************************************)
(* Bounds of the model.                                                    *)
(***************************************************************************)
\* longest error text the collaborator raises, in characters
MaxTextLen == 2
\* largest exit code the collaborator passes to sys.exit on a mismatch
MaxExitCode == 2

(***************************************************************************)
(* Python values.  Every value is a record of its class, its text (the     *)
(* characters of a str, the message of an exception, the name of a         *)
(* function) and, for SystemExit, its exit code.                           *)
(***************************************************************************)
Obj(cls, text, code) == [cls |-> cls, text |-> text, code |-> code]

Str(s) == Obj("str", s, 0)

\* the two string literals of the print statements
PREFIX == <<"Something went wrong, Here's a preview for developers:">>

NL == <<"\n">>

\* the class hierarchy of the exceptions that occur
Base(cls) ==
    CASE cls = "SystemExit" -> "BaseException"
      [] cls = "Exception" -> "BaseException"
      [] cls = "TypeError" -> "Exception"
      [] cls = "NameError" -> "Exception"
      [] cls = "ConfigNotFound" -> "Exception"
      [] cls = "ValueError" -> "Exception"
      [] cls = "JSONDecodeError" -> "ValueError"
      [] cls = "OSError" -> "Exception"
      [] cls = "FileNotFoundError" -> "OSError"
      [] OTHER -> "object"

RECURSIVE IsSubclass(_, _)
IsSubclass(c, d) ==
    \/ c = d
    \/ c # "object" /\ c # "BaseException" /\ IsSubclass(Base(c), d)

\* a clause that catches everything, SystemExit included (bare except)
CatchesBaseException(x) == IsSubclass(x.cls, "BaseException")

\* `except Exception as e`: the clause matches instances of Exception only
Catches(x) == IsSubclass(x.cls, "Exception")

\* a + b on the values that occur: str concatenates with str only
Add(a, b) ==
    IF a.cls = "str" /\ b.cls = "str"
    THEN [exc |-> <<>>, val |-> Str(a.text \o b.text)]
    ELSE [exc |-> <<Obj("TypeError", <<"can only concatenate str (not ", b.cls, ") to str">>, 0)>>,
          val |-> Str(<<>>)]

\* the names the builtins module binds, as far as the script uses names
Builtins == {"print", "Exception"}

\* evaluation of a name in the module namespace g
Lookup(g, name) ==
    IF name \in DOMAIN g
    THEN [exc |-> <<>>, val |-> g[name]]
    ELSE IF name \in Builtins
    THEN [exc |-> <<>>, val |-> Obj("builtin", <<name>>, 0)]
    ELSE [exc |-> <<Obj("NameError", <<"name '", name, "' is not defined">>, 0)>>,
          val |-> Str(<<>>)]

\* the line print(...) writes for an error whose text is t
Diagnostic(t) == PREFIX \o NL \o t

(***************************************************************************)
(* The layout of the script.                                               *)
(***************************************************************************)
\* the collaborator function a call line calls
Callee(line) ==
    CASE line = 6 -> "login"
      [] line = 13 -> "login_silent"
      [] line = 20 -> "login_noexit"
      [] line = 30 -> "login"
      [] line = 31 -> "login_noexit"
      [] line = 32 -> "login_silent"

GuardedLines == {6, 13, 20}

PathLines == {30, 31, 32}

\* a layout with the path-override calls inside the third try block
HandlerCoversPathCalls(line) ==
    CASE line = 6 -> 8
      [] line = 13 -> 15
      [] line = 20 -> 22
      [] line \in PathLines -> 22
      [] OTHER -> 0

\* first line of the except body guarding a line, 0 when no try encloses it
Handler(line) ==
    CASE line = 6 -> 8
      [] line = 13 -> 15
      [] line = 20 -> 22
      [] OTHER -> 0

\* a layout in which the try body falls into its except body
AfterFallsIntoHandler(line) ==
    CASE line \in {6, 8, 9} -> 13
      [] line \in {13, 15, 16} -> 20
      [] line = 20 -> 22
      [] line \in {22, 23} -> 30
      [] line = 30 -> 31
      [] line = 31 -> 32
      [] OTHER -> 36

\* the statement control reaches when the statement at line completes
\* normally (a try statement is left as a whole); 36 is the end of the file
After(line) ==
    CASE line \in {6, 8, 9} -> 13
      [] line \in {13, 15, 16} -> 20
      [] line \in {20, 22, 23} -> 30
      [] line = 30 -> 31
      [] line = 31 -> 32
      [] OTHER -> 36

(***************************************************************************)
(* The collaborator.  novacore is not part of the repository: a call       *)
(* returns, raises an error, or (login and login_silent, on a mismatch)    *)
(* ends the process by raising SystemExit.  login_noexit reports a         *)
(* mismatch and returns.                                                   *)
(***************************************************************************)
Chars == {"a", "b"}

Texts == UNION {[1..n -> Chars] : n \in 0..MaxTextLen}

ErrorClasses == {"ConfigNotFound", "JSONDecodeError", "FileNotFoundError"}

Errors == {Obj(k, t, 0) : k \in ErrorClasses, t \in Texts}

Outcomes(fn) ==
    {[exc |-> <<>>, mismatch |-> FALSE]}
    \cup {[exc |-> <<x>>, mismatch |-> FALSE] : x \in Errors}
    \cup (IF fn = "login_noexit"
          THEN {[exc |-> <<>>, mismatch |-> TRUE]}
          ELSE {[exc |-> <<Obj("SystemExit", <<>>, c)>>, mismatch |-> TRUE] :
                    c \in 0..MaxExitCode})

(***************************************************************************)
(* The interpreter.                                                        *)
(***************************************************************************)
\* an exception no clause catches ends the process: SystemExit with its
\* code and silently, any other with a traceback (the exception being
\* handled first) and status 1
InterpreterExit(x, handling) ==
    IF IsSubclass(x.cls, "SystemExit")
    THEN [status |-> {x.code % 256}, err |-> <<>>]
    ELSE [status |-> {1}, err |-> handling \o <<x>>]

Bind(g, name, v) == [n \in DOMAIN g \cup {name} |-> IF n = name THEN v ELSE g[n]]

Unbind(g, name) == [n \in DOMAIN g \ {name} |-> g[n]]

\* the exception being handled when the statement at line raises
Handling(g, line) ==
    IF line \in {8, 9, 15, 16, 22, 23} /\ "e" \in DOMAIN g THEN <<g["e"]>> ELSE <<>>

\* an except body that swallows the error: nothing printed, no exit
ExceptBodySwallows(g) == [out |-> <<>>, exc |-> <<>>, off |-> 0]

\* the two statements of an except body, run in the namespace g:
\*     print("Something went wrong, Here's a preview for developers:"+"\n"+e)
\*     sys.exit(1)
\* out: the lines printed; exc: the exception that ends the body;
\* off: the statement that raised it (0 the print, 1 the sys.exit)
ExceptBody(g) ==
    LET lit == Add(Str(PREFIX), Str(NL))
        e   == Lookup(g, "e")
        arg == IF e.exc # <<>> THEN e ELSE Add(lit.val, e.val)
    IN  IF arg.exc # <<>>
        THEN [out |-> <<>>, exc |-> arg.exc, off |-> 0]
        ELSE [out |-> <<arg.val.text>>,
              exc |-> <<Obj("SystemExit", <<>>, 1)>>,
              off |-> 1]

\* the statement at line raises x
RaiseAt(line, x, by) ==
    /\ raises' = Append(raises, [line |-> line, exc |-> x, by |-> by])
    /\ IF Handler(line) # 0 /\ Catches(x)
       THEN /\ pc' = Handler(line)
            /\ globals' = Bind(globals, "e", x)
            /\ UNCHANGED <<status, stderr>>
       ELSE LET exit == InterpreterExit(x, Handling(globals, line))
            IN  /\ pc' = line
                /\ status' = exit.status
                /\ stderr' = stderr \o exit.err
                /\ UNCHANGED globals

\* the statement at line completes; past the last line the process ends
Continue(line) ==
    /\ pc' = After(line)
    /\ status' = IF After(line) = 36 THEN {0} ELSE status
    /\ UNCHANGED <<stderr, raises>>

\* the call at line, with the collaborator's outcome o
Call(line, args, o) ==
    /\ calls' = Append(calls, [fn |-> Callee(line), args |-> args])
    /\ mismatches' = IF o.mismatch THEN mismatches \cup {Callee(line)} ELSE mismatches
    /\ UNCHANGED stdout
    /\ IF o.exc = <<>>
       THEN Continue(line) /\ UNCHANGED globals
       ELSE RaiseAt(line, o.exc[1], "collaborator")

GuardedCall(line) ==
    /\ pc = line
    /\ status = {}
    /\ \E o \in Outcomes(Callee(line)) : Call(line, <<>>, o)

Except(line) ==
    /\ pc = line
    /\ status = {}
    /\ LET r == ExceptBody(globals)
       IN  /\ stdout' = stdout \o r.out
           /\ UNCHANGED <<calls, mismatches>>
           /\ IF r.exc = <<>>
              THEN /\ Continue(line)
                   /\ globals' = Unbind(globals, "e")
              ELSE RaiseAt(line + r.off, r.exc[1], "script")

(***************************************************************************)
(* The script, statement by statement.                                     *)
(***************************************************************************)
Init ==
    /\ pc = 1
    /\ globals = [n \in {} |-> Str(<<>>)]
    /\ stdout = <<>>
    /\ stderr = <<>>
    /\ status = {}
    /\ calls = <<>>
    /\ mismatches = {}
    /\ raises = <<>>

\* lines 1-2
Import ==
    /\ pc = 1
    /\ status = {}
    /\ globals' = [n \in {"login", "login_silent", "login_noexit", "sys"} |->
                      IF n = "sys" THEN Obj("module", <<n>>, 0)
                                   ELSE Obj("function", <<n>>, 0)]
    /\ pc' = 6
    /\ UNCHANGED <<stdout, stderr, status, calls, mismatches, raises>>

\* lines 5-6
Login == GuardedCall(6)

\* lines 7-9
LoginExcept == Except(8)

\* lines 12-13
LoginSilent == GuardedCall(13)

\* lines 14-16
LoginSilentExcept == Except(15)

\* lines 19-20
LoginNoexit == GuardedCall(20)

\* lines 21-23
LoginNoexitExcept == Except(22)

\* lines 30-32: login(path), login_noexit(path), login_silent(path)
PathOverride ==
    /\ pc \in PathLines
    /\ status = {}
    /\ LET p == Lookup(globals, "path")
       IN  IF p.exc # <<>>
           THEN /\ RaiseAt(pc, p.exc[1], "script")
                /\ UNCHANGED <<stdout, calls, mismatches>>
           ELSE \E o \in Outcomes(Callee(pc)) : Call(pc, <<p.val>>, o)

Next ==
    \/ Import
    \/ Login
    \/ LoginExcept
    \/ LoginSilent
    \/ LoginSilentExcept
    \/ LoginNoexit
    \/ LoginNoexitExcept
    \/ PathOverride

Spec == Init /\ [][Next]_vars

(***************************************************************************)
(* Vocabulary of the properties.                                           *)
(***************************************************************************)
\* the process has ended
Done == status # {}

\* the diagnostics on standard output: the lines that start with the prefix
DiagLines == SelectSeq(stdout, LAMBDA l : Len(l) >= 1 /\ l[1] = PREFIX[1])

\* the raise events of collaborator calls
CollabRaises == SelectSeq(raises, LAMBDA r : r.by = "collaborator")

\* the errors (instances of Exception) raised by guarded collaborator calls
GuardedErrors ==
    SelectSeq(raises, LAMBDA r : /\ r.by = "collaborator"
                                 /\ r.line \in GuardedLines
                                 /\ IsSubclass(r.exc.cls, "Exception"))

\* the process exits (SystemExit) raised by collaborator calls
CollabExits ==
    SelectSeq(raises, LAMBDA r : r.by = "collaborator" /\ r.exc.cls = "SystemExit")

\* the three guarded calls, in the order of the script
GuardedOrder ==
    << [fn |-> "login", args |-> <<>>],
       [fn |-> "login_silent", args |-> <<>>],
       [fn |-> "login_noexit", args |-> <<>>] >>

\* position of a guarded call line in that order
Position(line) == CASE line = 6 -> 1 [] line = 13 -> 2 [] line = 20 -> 3

(***************************************************************************)
(* C1: in every run in which every collaborator call returns normally the  *)
(* process ends with exit status 0 and no diagnostic is printed.           *)
(* Violated: after the three checks return, line 30 evaluates the unbound  *)
(* name path, and the uncaught NameError ends the process with status 1.   *)
(***************************************************************************)
C1_SuccessExitsZero ==
    (Done /\ CollabRaises = <<>>) => (status = {0} /\ DiagLines = <<>>)

(***************************************************************************)
(* C2: when a guarded call raises an error, the script prints the prefix,  *)
(* a newline and the error's text on standard output and then exits with   *)
(* status 1.                                                               *)
(* Violated: the print argument adds a str and the exception object, which *)
(* raises TypeError before anything is printed.                            *)
(***************************************************************************)
C2_ErrorPrintsDiagnostic ==
    (Done /\ GuardedErrors # <<>>) =>
        /\ stdout = <<Diagnostic(GuardedErrors[1].exc.text)>>
        /\ status = {1}

(***************************************************************************)
(* C3: no run ends with an uncaught exception: a termination caused by a   *)
(* collaborator error happens in the handler, by its explicit sys.exit(1)  *)
(* after the message.                                                      *)
(* Violated: the handler's print raises TypeError, which nothing catches;  *)
(* the interpreter writes the traceback and sys.exit(1) is never reached.  *)
(***************************************************************************)
C3_NoUncaughtException ==
    (Done /\ GuardedErrors # <<>>) =>
        /\ stderr = <<>>
        /\ pc \in {9, 16, 23}
        /\ raises[Len(raises)].exc = Obj("SystemExit", <<>>, 1)

(***************************************************************************)
(* C4: in every run in which the three default-path checks returned        *)
(* normally the path-override calls are reached and made with a defined    *)
(* path value, passed unmodified.                                          *)
(* Violated: nothing binds path, so line 30 raises NameError and no        *)
(* path-override call is ever made.                                        *)
(***************************************************************************)
C4_PathForwarded ==
    (Done /\ Len(calls) >= 3 /\ CollabRaises = <<>>) =>
        /\ "path" \in DOMAIN globals
        /\ Len(calls) = 6
        /\ \A k \in 4..6 : calls[k].args = <<globals["path"]>>
        /\ <<calls[4].fn, calls[5].fn, calls[6].fn>> =
               <<"login", "login_noexit", "login_silent">>

(***************************************************************************)
(* C5: when login_noexit detects a mismatch and returns without raising,   *)
(* the process does not exit: the step of that call leaves the process     *)
(* running with control past the third error boundary, at line 30.         *)
(***************************************************************************)
C5_NoexitMismatchContinues ==
    [][("login_noexit" \in mismatches' /\ "login_noexit" \notin mismatches)
         => (status' = {} /\ pc' = 30 /\ raises' = raises)]_vars

C5_Witness ==
    /\ "login_noexit" \in mismatches
    /\ pc = 30
    /\ ~Done
    /\ Len(calls) = 3

(***************************************************************************)
(* C6: an error raised by any of the three guarded calls ends the process  *)
(* at that call's boundary with exit status 1, for login_noexit as for     *)
(* login and login_silent.                                                 *)
(***************************************************************************)
C6_ErrorExitsOne ==
    \A i \in DOMAIN GuardedErrors :
        /\ pc \in {GuardedErrors[i].line + 2, GuardedErrors[i].line + 3}
        /\ Done => status = {1}

C6_Witness ==
    /\ Done
    /\ status = {1}
    /\ \E i \in DOMAIN GuardedErrors : GuardedErrors[i].line = 20

(***************************************************************************)
(* C7: the guarded calls are made in the order login, login_silent,        *)
(* login_noexit, each at most once, and once a collaborator call has       *)
(* raised, no further collaborator call is made.                           *)
(***************************************************************************)
C7_OrderAndStop ==
    LET guarded == SelectSeq(calls, LAMBDA c : c.args = <<>>)
    IN  /\ Len(guarded) <= 3
        /\ guarded = SubSeq(GuardedOrder, 1, Len(guarded))
        /\ Len(CollabRaises) <= 1
        /\ \A i \in DOMAIN CollabRaises :
               CollabRaises[i].line \in GuardedLines =>
                   Len(calls) = Position(CollabRaises[i].line)

C7_Witness ==
    /\ Done
    /\ Len(calls) = 2
    /\ GuardedErrors # <<>>
    /\ GuardedErrors[1].line = 13

(***************************************************************************)
(* C8: the diagnostic is printed at most once, and in exactly the runs     *)
(* that end with exit status 1 (stated of the runs the collaborator does   *)
(* not end itself).                                                        *)
(* Violated: every error run ends with status 1 by an uncaught TypeError,  *)
(* having printed nothing.                                                 *)
(***************************************************************************)
C8_DiagnosticIffExitOne ==
    CollabExits = <<>> =>
        /\ Len(DiagLines) <= 1
        /\ Done => (status = {1} <=> Len(DiagLines) = 1)

(***************************************************************************)
(* C9: an error raised by a path-override statement (lines 30-32) is not   *)
(* caught: the process ends at that statement with that very error as the  *)
(* uncaught exception, no handler is entered, no diagnostic is printed and *)
(* sys.exit(1) is not the statement that ends the run.                     *)
(***************************************************************************)
C9_PathErrorsUncaught ==
    \A i \in DOMAIN raises :
        raises[i].line \in PathLines =>
            /\ Done
            /\ pc = raises[i].line
            /\ i = Len(raises)
            /\ stderr = <<raises[i].exc>>
            /\ DiagLines = <<>>
            /\ "e" \notin DOMAIN globals

C9_Witness ==
    /\ Done
    /\ pc = 30
    /\ raises # <<>>
    /\ raises[Len(raises)].line = 30
    /\ Len(calls) = 3

(***************************************************************************)
(* C10: when login or login_silent ends the process itself (SystemExit,    *)
(* not an Exception) the boundary does not intercept it: the run ends at   *)
(* that call with the collaborator's own exit status, the script prints    *)
(* nothing, and no later check, login_noexit in particular, is called.     *)
(***************************************************************************)
C10_CollaboratorExitNotCaught ==
    \A i \in DOMAIN CollabExits :
        LET r == CollabExits[i]
        IN  /\ Done
            /\ status = {r.exc.code}
            /\ pc = r.line
            /\ stdout = <<>>
            /\ stderr = <<>>
            /\ calls[Len(calls)].fn = Callee(r.line)
            /\ \A k \in DOMAIN calls : calls[k].fn # "login_noexit"

C10_Witness ==
    /\ Done
    /\ status = {2}
    /\ CollabExits # <<>>
    /\ CollabExits[1].line = 13
    /\ Len(calls) = 2

====
